---- MODULE Spec2Model ----
(***************************************************************************)
(* Model of the submission-originality pipeline: the command line's main   *)
(* loop (src/src/cli.py) driving ingest_repo (src/src/ingest.py) and       *)
(* analyze_repo (src/src/temporal.py) over a list of repository specs.     *)
(*                                                                         *)
(* Strings are sequences of atoms (short literal pieces of text), so that  *)
(* concatenation is \o and "x in s" is a contiguous-subsequence test.      *)
(* The provider's server is the environment: every response is chosen      *)
(* nondeterministically when the request is issued.  A list endpoint       *)
(* serves a finite history of hist[k] commits in pages of at most per_page *)
(* items (the page-number pagination the ingester relies on).              *)
(***************************************************************************)
EXTENDS Integers, Sequences, FiniteSets, TLC

VARIABLES
    specs,          \* cli.main: the RepoSpec list read from --input
    github_token,   \* cli.main: args.github_token
    gitlab_token,   \* cli.main: args.gitlab_token
    env_github,     \* os.getenv("GITHUB_TOKEN")
    env_gitlab,     \* os.getenv("GITLAB_TOKEN")
    analyze,        \* cli.main: args.report or args.analyze
    window,         \* cli.main: app_config.hackathon_window
    hist,           \* server side: hist[k] = number of commits of specs[k]'s history
    idx,            \* cli.main: position of the for loop over specs
    pc,             \* control position: start, list, item, diff, returned, done, raised
    exc,            \* the exception that left ingest_repo / analyze_repo uncaught
    result,         \* ingest_repo: the IngestResult being accumulated
    parsed,         \* ingest_repo: the ParsedRepoURL of the current spec
    page,           \* _ingest_*: page
    page_len,       \* _ingest_*: len(page_data)
    i,              \* _ingest_*: position of the for loop over page_data
    detail,         \* _ingest_gitlab: the detail response awaiting the diff request
    resp,           \* the response that the last request received
    pages,          \* log of the list-page exchanges of the current repository
    nreq,           \* number of fetch operations issued for the current repository
    results,        \* the IngestResults returned so far, in input order
    reports,        \* cli.main: the temporal reports computed so far
    total_commits,  \* cli.main: total_commits
    total_errors,   \* cli.main: total_errors
    call,           \* a direct call of one function: its name and arguments
    ret             \* what that call returned (or the exception it raised)

vars == <<specs, github_token, gitlab_token, env_github, env_gitlab, analyze, window,
          hist, idx, pc, exc, result, parsed, page, page_len, i, detail, resp, pages,
          nreq, results, reports, total_commits, total_errors, call, ret>>

(***************************************************************************)
(* Bounds of the model.                                                    *)
(***************************************************************************)
\* at most this many repository specs in one run
MaxRepos == 2
\* a history holds at most this many full pages ...
MaxFullPages == 1
\* ... plus at most this many further commits
MaxShort == 1
\* only the first VaryIdx entries of a history may be served abnormally;
\* the entries after them are well-formed and their requests succeed
VaryIdx == 1
\* the risk scorer is called for the shares of up to this many commits
MaxTotal == 5
\* the URLs resolved directly have at most this many path segments
MaxSegs == 3
\* the results analysed directly have at most this many commits
MaxCommits == 4

(***************************************************************************)
(* Program constants.                                                      *)
(***************************************************************************)
per_page == 100

(***************************************************************************)
(* Strings.                                                                *)
(***************************************************************************)
\* Python's None, where a str is expected
None == <<"<None>">>

\* Python: t in s
Contains(s, t) ==
    \E k \in 0..(Len(s) - Len(t)) : SubSeq(s, k + 1, k + Len(t)) = t

\* str.lower(), atom by atom
LowerAtom(a) ==
    CASE a = "GitHub.com" -> "github.com"
      [] a = "GitLab" -> "gitlab"
      [] OTHER -> a

Lower(s) == [k \in 1..Len(s) |-> LowerAtom(s[k])]

\* str(n) for n >= 0
DigitAtom(d) ==
    CASE d = 0 -> "0" [] d = 1 -> "1" [] d = 2 -> "2" [] d = 3 -> "3" [] d = 4 -> "4"
      [] d = 5 -> "5" [] d = 6 -> "6" [] d = 7 -> "7" [] d = 8 -> "8" [] d = 9 -> "9"

RECURSIVE IntToStr(_)
IntToStr(n) ==
    IF n < 10 THEN <<DigitAtom(n)>> ELSE IntToStr(n \div 10) \o <<DigitAtom(n % 10)>>

\* str.removesuffix(".git")
RemoveGitSuffix(s) ==
    IF Len(s) >= 1 /\ s[Len(s)] = ".git" THEN SubSeq(s, 1, Len(s) - 1) ELSE s

\* the least k >= from with s[k] = a, or Len(s) + 1
RECURSIVE IndexFrom(_, _, _)
IndexFrom(s, a, from) ==
    IF from > Len(s) THEN Len(s) + 1
    ELSE IF s[from] = a THEN from
    ELSE IndexFrom(s, a, from + 1)

\* [p for p in s.split("/") if p]
RECURSIVE SplitPath(_)
SplitPath(s) ==
    IF s = <<>> THEN <<>>
    ELSE LET k == IndexFrom(s, "/", 1)
             head == SubSeq(s, 1, k - 1)
             rest == SubSeq(s, k + 1, Len(s))
         IN  (IF head = <<>> THEN <<>> ELSE <<head>>) \o SplitPath(rest)

\* "/".join(parts)
RECURSIVE JoinPath(_)
JoinPath(parts) ==
    IF parts = <<>> THEN <<>>
    ELSE IF Len(parts) = 1 THEN parts[1]
    ELSE parts[1] \o <<"/">> \o JoinPath(Tail(parts))

(***************************************************************************)
(* URL resolution.                                                         *)
(***************************************************************************)
GITHUB_HOSTS == { <<"github.com">>, <<"www.", "github.com">> }

Schemes == {"https://", "http://"}

\* urlparse(repo_url).netloc: the text between the scheme and the first "/"
UrlNetloc(u) ==
    IF Len(u) >= 1 /\ u[1] \in Schemes
    THEN SubSeq(u, 2, IndexFrom(u, "/", 2) - 1)
    ELSE <<>>

\* urlparse(repo_url).path
UrlPath(u) ==
    IF Len(u) >= 1 /\ u[1] \in Schemes
    THEN SubSeq(u, IndexFrom(u, "/", 2), Len(u))
    ELSE u

ParsedRepoURL(provider, host, owner, repo, namespace) ==
    [provider |-> provider, host |-> host, owner |-> owner, repo |-> repo,
     namespace |-> namespace]

\* the ValueError parse_repo_url raises, as a value
InvalidURL(provider_name, u) ==
    [provider |-> "ValueError", host |-> <<"Invalid ", provider_name, " URL: ">> \o u,
     owner |-> None, repo |-> None, namespace |-> None]

\* mutant of parse_repo_url: a GitHub repo is the last segment, not the second
parse_repo_urlLastSegment(repo_url) ==
    LET host  == Lower(UrlNetloc(repo_url))
        parts == SplitPath(UrlPath(repo_url))
    IN  IF host = <<>> THEN ParsedRepoURL("unknown", <<>>, None, None, None)
        ELSE IF host \in GITHUB_HOSTS
        THEN IF Len(parts) < 2 THEN InvalidURL("GitHub", repo_url)
             ELSE ParsedRepoURL("github", host, parts[1],
                                RemoveGitSuffix(parts[Len(parts)]), None)
        ELSE IF Contains(host, <<"gitlab">>)
        THEN IF Len(parts) < 2 THEN InvalidURL("GitLab", repo_url)
             ELSE ParsedRepoURL("gitlab", host, None,
                                RemoveGitSuffix(parts[Len(parts)]),
                                JoinPath(SubSeq(parts, 1, Len(parts) - 1)))
        ELSE ParsedRepoURL("unknown", host, None, None, None)

\* mutant of parse_repo_url: a GitLab namespace is the first segment only
parse_repo_urlFlatNamespace(repo_url) ==
    LET host  == Lower(UrlNetloc(repo_url))
        parts == SplitPath(UrlPath(repo_url))
    IN  IF host = <<>> THEN ParsedRepoURL("unknown", <<>>, None, None, None)
        ELSE IF host \in GITHUB_HOSTS
        THEN IF Len(parts) < 2 THEN InvalidURL("GitHub", repo_url)
             ELSE ParsedRepoURL("github", host, parts[1], RemoveGitSuffix(parts[2]), None)
        ELSE IF Contains(host, <<"gitlab">>)
        THEN IF Len(parts) < 2 THEN InvalidURL("GitLab", repo_url)
             ELSE ParsedRepoURL("gitlab", host, None,
                                RemoveGitSuffix(parts[Len(parts)]), parts[1])
        ELSE ParsedRepoURL("unknown", host, None, None, None)

parse_repo_url(repo_url) ==
    LET host  == Lower(UrlNetloc(repo_url))
        parts == SplitPath(UrlPath(repo_url))
    IN  IF host = <<>> THEN ParsedRepoURL("unknown", <<>>, None, None, None)
        ELSE IF host \in GITHUB_HOSTS
        THEN IF Len(parts) < 2 THEN InvalidURL("GitHub", repo_url)
             ELSE ParsedRepoURL("github", host, parts[1], RemoveGitSuffix(parts[2]), None)
        ELSE IF Contains(host, <<"gitlab">>)
        THEN IF Len(parts) < 2 THEN InvalidURL("GitLab", repo_url)
             ELSE ParsedRepoURL("gitlab", host, None,
                                RemoveGitSuffix(parts[Len(parts)]),
                                JoinPath(SubSeq(parts, 1, Len(parts) - 1)))
        ELSE ParsedRepoURL("unknown", host, None, None, None)

(***************************************************************************)
(* Data model (src/src/models.py) and timestamps.                          *)
(***************************************************************************)
\* A timestamp text.  kind "empty" is "", kind "text" is a text that is not
\* ISO-8601, kind "iso" is an ISO-8601 text with an explicit numeric offset,
\* kind "isoZ" one that ends in "Z" and kind "naive" one without any offset;
\* local is the wall-clock reading (minutes since 2026-01-01T00:00) and off
\* the offset, in minutes.
EmptyStr == [kind |-> "empty", local |-> 0, off |-> 0]

NotIso == [kind |-> "text", local |-> 0, off |-> 0]

Iso(local, off) == [kind |-> "iso", local |-> local, off |-> off]

IsoZ(local) == [kind |-> "isoZ", local |-> local, off |-> 0]

IsoNaive(local) == [kind |-> "naive", local |-> local, off |-> 0]

\* whether datetime.fromisoformat(raw.replace("Z", "+00:00")) succeeds
ParsesAsIso(raw) == raw.kind \in {"iso", "isoZ", "naive"}

\* the offset of the zone the process runs in (astimezone reads a naive
\* datetime in that zone); the process runs in UTC
SystemOffset == 0

_normalize_timestamp(raw_value) ==
    IF raw_value = EmptyStr THEN EmptyStr
    ELSE IF raw_value.kind = "naive" THEN IsoZ(raw_value.local - SystemOffset)
    ELSE IF ParsesAsIso(raw_value) THEN IsoZ(raw_value.local - raw_value.off)
    ELSE raw_value

\* datetime.min, 0001-01-01T00:00, in minutes since 2026-01-01T00:00: no
\* earlier wall clock is a datetime (datetime.max is as far away on the other
\* side, beyond the integers of the model)
DatetimeMin == 0 - 739616 * 1440

\* whether _normalize_timestamp leaves by an exception: astimezone raises
\* OverflowError, which is not the ValueError of the except clause, when the
\* UTC reading of a parsed value lies before datetime.min
_normalize_timestampRaises(raw_value) ==
    /\ raw_value # EmptyStr
    /\ ParsesAsIso(raw_value)
    /\ raw_value.local - (IF raw_value.kind = "naive" THEN SystemOffset ELSE raw_value.off)
           < DatetimeMin

Commit(sha, timestamp, files_changed) ==
    [sha |-> sha, timestamp |-> timestamp, files_changed |-> files_changed]

\* mutant of NewResult: the lists are shared with the result built before
\* (mutable default arguments instead of default_factory)
NewResultSharedLists(spec) ==
    [spec |-> spec, commits |-> result.commits, errors |-> result.errors,
     warnings |-> result.warnings]

NewResult(spec) ==
    [spec |-> spec, commits |-> <<>>, errors |-> <<>>, warnings |-> <<>>]

AddError(r, msg) == [r EXCEPT !.errors = Append(@, msg)]

AddWarning(r, msg) == [r EXCEPT !.warnings = Append(@, msg)]

\* mutant of AddCommit: the commit is put at the head of the list
AddCommitFirst(r, c) == [r EXCEPT !.commits = <<c>> \o @]

AddCommit(r, c) == [r EXCEPT !.commits = Append(@, c)]

(***************************************************************************)
(* Messages of ingest.py.                                                  *)
(***************************************************************************)
UnsupportedHostMsg(host, url) ==
    <<"Unsupported host '">> \o host \o <<"' for ">> \o url \o <<"; skipped">>

RequestFailedMsg(name, url) == <<name, " request failed for ">> \o url

AccessDeniedMsg(name, url) ==
    <<name, " access denied for ">> \o url \o <<"; token may lack scope">>

MayBePrivateMsg(name, url) ==
    <<name, " repo may be private: ">> \o url \o <<"; missing token, skipped">>

NotFoundMsg(name, url) == <<name, " repo not found or unreachable: ">> \o url

ApiErrorMsg(name, status, url) ==
    <<name, " API error (">> \o IntToStr(status) \o <<") for ">> \o url

DetailFailedMsg(sha, url) ==
    <<"Failed to fetch commit details for ">> \o sha \o <<" in ">> \o url

(***************************************************************************)
(* Credentials.                                                            *)
(***************************************************************************)
\* Python truthiness of an optional str
Truthy(s) == s # None /\ s # <<>>

\* token if token is not None else os.getenv(...)
TokenOrEnv(arg, env) == IF arg # None THEN arg ELSE env

\* the token handed to the fetcher of the current repository
Token ==
    IF parsed.provider = "github" THEN TokenOrEnv(github_token, env_github)
    ELSE TokenOrEnv(gitlab_token, env_gitlab)

(***************************************************************************)
(* The server.                                                             *)
(***************************************************************************)
\* a response; kind "none" is a transport failure (_safe_get returns None)
Response(for, kind, status, body) ==
    [for |-> for, kind |-> kind, status |-> status, body |-> body]

NoResponse == Response("none", "none", 0, "none")

Statuses == {200, 401, 403, 404, 429, 500}

\* what a request may receive: a transport failure, or a status with a body
\* that is not JSON ("invalid"), a JSON object ("object") or a JSON list
Responses(for) ==
    {Response(for, "none", 0, "none")}
        \cup {Response(for, "http", s, "object") : s \in Statuses}
        \cup {Response(for, "http", 200, b) : b \in {"invalid", "list"}}

\* number of summaries the list endpoint serves on page p of a history of n
PageSize(n, p) ==
    LET rest == n - per_page * (p - 1)
    IN  IF rest <= 0 THEN 0 ELSE IF rest > per_page THEN per_page ELSE rest

\* the position in the history of the k-th summary of page p
EntryOf(p, k) == per_page * (p - 1) + k

\* the sha of the k-th summary of page p
ShaOf(p, k) == <<"sha">> \o IntToStr(EntryOf(p, k))

\* the JSON object a detail request may return: the author date it carries and
\* (GitHub) the names of its files
DetailData(date, files) == [date |-> date, files |-> files]

NoDetail == DetailData(EmptyStr, <<>>)

WellFormedDetail == DetailData(Iso(600, 60), <<"src/app.py">>)

DetailChoices ==
    {WellFormedDetail, DetailData(EmptyStr, <<>>), DetailData(NotIso, <<"src/app.py">>)}

\* the paths a diff request may return
DiffChoices == {<<"src/app.py">>, <<>>}

\* a summary of a list page: not a JSON object, an object without sha/id, or
\* an object with one
ItemKinds == {"nondict", "nosha", "ok"}

(***************************************************************************)
(* Exceptions.                                                             *)
(***************************************************************************)
Exception(in, type) == [in |-> in, type |-> type]

NoException == Exception("none", "none")

(***************************************************************************)
(* The API fetchers: _ingest_github and _ingest_gitlab.                    *)
(***************************************************************************)
Outcome(res, next, e) == [result |-> res, pc |-> next, exc |-> e]

\* mutant of AfterDenied: a 401/403 is an error whether or not a token was given
AfterDeniedAlwaysError(res, name, url, token) ==
    AddError(res, AccessDeniedMsg(name, url))

\* the 401/403 branch of a list page
AfterDenied(res, name, url, token) ==
    IF Truthy(token)
    THEN AddError(res, AccessDeniedMsg(name, url))
    ELSE AddWarning(res, MayBePrivateMsg(name, url))

\* mutant of IsErrorStatus: only server errors are failures
IsErrorStatusServerOnly(status) == status >= 500

\* response.status_code >= 400
IsErrorStatus(status) == status >= 400

\* mutant of AfterList: after a transport failure the error is recorded and
\* the same page is requested again
AfterListRetrying(res, r, n, name, url, token) ==
    IF r.kind = "none"
    THEN Outcome(AddError(res, RequestFailedMsg(name, url)), "list", NoException)
    ELSE IF r.status \in {401, 403}
    THEN Outcome(AfterDenied(res, name, url, token), "returned", NoException)
    ELSE IF r.status = 404
    THEN Outcome(AddError(res, NotFoundMsg(name, url)), "returned", NoException)
    ELSE IF IsErrorStatus(r.status)
    THEN Outcome(AddError(res, ApiErrorMsg(name, r.status, url)), "returned", NoException)
    ELSE IF r.body = "invalid"
    THEN Outcome(res, "raised", Exception("ingest_repo", "JSONDecodeError"))
    ELSE IF r.body # "list" \/ n = 0
    THEN Outcome(res, "returned", NoException)
    ELSE Outcome(res, "item", NoException)

\* what follows the response r to a list-page request, n being the number of
\* summaries the page holds when its body is a list
AfterList(res, r, n, name, url, token) ==
    IF r.kind = "none"
    THEN Outcome(AddError(res, RequestFailedMsg(name, url)), "returned", NoException)
    ELSE IF r.status \in {401, 403}
    THEN Outcome(AfterDenied(res, name, url, token), "returned", NoException)
    ELSE IF r.status = 404
    THEN Outcome(AddError(res, NotFoundMsg(name, url)), "returned", NoException)
    ELSE IF IsErrorStatus(r.status)
    THEN Outcome(AddError(res, ApiErrorMsg(name, r.status, url)), "returned", NoException)
    ELSE IF r.body = "invalid"
    THEN Outcome(res, "raised", Exception("ingest_repo", "JSONDecodeError"))
    ELSE IF r.body # "list" \/ n = 0
    THEN Outcome(res, "returned", NoException)
    ELSE Outcome(res, "item", NoException)

\* the entry of the list-page log: the request's parameters and the number of
\* summaries answered (-1 when the answer was a failure or not a list)
PageLog(p, r, n) ==
    [page |-> p, per_page |-> per_page,
     items |-> IF r.kind = "http" /\ r.status < 400 /\ r.body = "list" THEN n ELSE -1]

\* mutant of Advance: the number of pages is capped, the loop ends after the
\* first page however many summaries it holds
AdvanceCapped(n, k, p) ==
    IF k < n THEN [pc |-> "item", i |-> k + 1, page |-> p]
    ELSE [pc |-> "returned", i |-> k, page |-> p]

\* mutant of Advance: the loop goes on to the next page after a short page
AdvanceWithoutBreak(n, k, p) ==
    IF k < n THEN [pc |-> "item", i |-> k + 1, page |-> p]
    ELSE [pc |-> "list", i |-> k, page |-> p + 1]

\* where the fetch goes after entry k of a page of n summaries, on page p
Advance(n, k, p) ==
    IF k < n THEN [pc |-> "item", i |-> k + 1, page |-> p]
    ELSE IF n < per_page THEN [pc |-> "returned", i |-> k, page |-> p]
    ELSE [pc |-> "list", i |-> k, page |-> p + 1]

\* a detail (or diff) request failed: no response, or a status >= 400
Failed(r) == r.kind = "none" \/ r.status >= 400

\* mutant of AfterDetailFailure: the failure is recorded as an error
AfterDetailFailureAsError(res, sha, url) == AddError(res, DetailFailedMsg(sha, url))

\* what a failed detail request leaves in the result
AfterDetailFailure(res, sha, url) == AddWarning(res, DetailFailedMsg(sha, url))

\* the responses, summaries and detail objects the server may give for the
\* k-th entry of the history
ResponsesAt(for, k) ==
    IF k <= VaryIdx THEN Responses(for) ELSE {Response(for, "http", 200, "object")}

DiffResponsesAt(k) ==
    IF k <= VaryIdx THEN Responses("diff") ELSE {Response("diff", "http", 200, "list")}

ItemKindsAt(k) == IF k <= VaryIdx THEN ItemKinds ELSE {"ok"}

DetailChoicesAt(k) == IF k <= VaryIdx THEN DetailChoices ELSE {WellFormedDetail}

DiffChoicesAt(k) == IF k <= VaryIdx THEN DiffChoices ELSE {<<"src/app.py">>}

Url == result.spec.repo_url

\* the position in the history of the entry being processed
Entry == EntryOf(page, i)

\* one list-page exchange of either fetcher
ListPage(name) ==
    /\ pc = "list"
    /\ \E r \in Responses("list") :
          LET n == PageSize(hist[idx], page)
              o == AfterList(result, r, n, name, Url, Token)
          IN  /\ resp' = r
              /\ pages' = Append(pages, PageLog(page, r, n))
              /\ nreq' = nreq + 1
              /\ result' = o.result
              /\ pc' = o.pc
              /\ exc' = o.exc
              /\ page_len' = IF o.pc = "item" THEN n ELSE 0
              /\ i' = IF o.pc = "item" THEN 1 ELSE 0
    /\ UNCHANGED <<call, ret, window,
                   specs, github_token, gitlab_token, env_github, env_gitlab, analyze,
                   hist, idx, parsed, page, detail, results, reports, total_commits,
                   total_errors>>

GithubListPage == parsed.provider = "github" /\ ListPage("GitHub")

GitlabListPage == parsed.provider = "gitlab" /\ ListPage("GitLab")

\* the loop control after entry i of the current page
Continue ==
    LET a == Advance(page_len, i, page)
    IN  /\ pc' = a.pc
        /\ i' = a.i
        /\ page' = a.page

Raise(type) ==
    /\ pc' = "raised"
    /\ exc' = Exception("ingest_repo", type)
    /\ UNCHANGED <<i, page>>

\* one iteration of _ingest_github's loop over page_data
GithubItem ==
    /\ pc = "item"
    /\ parsed.provider = "github"
    /\ \E kind \in ItemKindsAt(Entry), r \in ResponsesAt("detail", Entry),
          d \in DetailChoicesAt(Entry) :
          LET sha == ShaOf(page, i)
          IN  IF kind = "nondict"
              THEN /\ Raise("AttributeError")
                   /\ UNCHANGED <<result, resp, nreq>>
              ELSE IF kind = "nosha"
              THEN /\ Continue
                   /\ UNCHANGED <<result, resp, nreq, exc>>
              ELSE /\ resp' = r
                   /\ nreq' = nreq + 1
                   /\ IF Failed(r)
                      THEN /\ result' = AfterDetailFailure(result, sha, Url)
                           /\ Continue
                           /\ UNCHANGED exc
                      ELSE IF r.body = "invalid"
                      THEN Raise("JSONDecodeError") /\ UNCHANGED result
                      ELSE IF r.body = "list"
                      THEN Raise("AttributeError") /\ UNCHANGED result
                      ELSE /\ result' = AddCommit(result,
                                            Commit(sha, _normalize_timestamp(d.date), d.files))
                           /\ Continue
                           /\ UNCHANGED exc
    /\ UNCHANGED <<call, ret, window,
                   specs, github_token, gitlab_token, env_github, env_gitlab, analyze,
                   hist, idx, parsed, page_len, detail, pages, results, reports,
                   total_commits, total_errors>>

\* _ingest_gitlab's loop over page_data, up to the diff request
GitlabItem ==
    /\ pc = "item"
    /\ parsed.provider = "gitlab"
    /\ \E kind \in ItemKindsAt(Entry), r \in ResponsesAt("detail", Entry),
          d \in DetailChoicesAt(Entry) :
          LET sha == ShaOf(page, i)
          IN  IF kind = "nondict"
              THEN /\ Raise("AttributeError")
                   /\ UNCHANGED <<result, resp, nreq, detail>>
              ELSE IF kind = "nosha"
              THEN /\ Continue
                   /\ UNCHANGED <<result, resp, nreq, exc, detail>>
              ELSE /\ resp' = r
                   /\ nreq' = nreq + 1
                   /\ IF Failed(r)
                      THEN /\ result' = AfterDetailFailure(result, sha, Url)
                           /\ Continue
                           /\ UNCHANGED <<exc, detail>>
                      ELSE /\ pc' = "diff"
                           /\ detail' = [body |-> r.body, data |-> d]
                           /\ UNCHANGED <<result, exc, i, page>>
    /\ UNCHANGED <<call, ret, window,
                   specs, github_token, gitlab_token, env_github, env_gitlab, analyze,
                   hist, idx, parsed, page_len, pages, results, reports,
                   total_commits, total_errors>>

\* the files_changed that a diff response yields
FilesOfDiff(r, files) == IF Failed(r) \/ r.body # "list" THEN <<>> ELSE files

\* mutant of AfterDiff: a failed diff request is handled as a failed detail
\* request is, by a warning and no commit
AfterDiffSkipsOnFailure(res, sha, date, r, files) ==
    IF Failed(r) THEN AfterDetailFailure(res, sha, res.spec.repo_url)
    ELSE AddCommit(res, Commit(sha, _normalize_timestamp(date), FilesOfDiff(r, files)))

\* the result after the diff request r of the entry sha: the commit is
\* appended, with the paths of the diff or with none
AfterDiff(res, sha, date, r, files) ==
    AddCommit(res, Commit(sha, _normalize_timestamp(date), FilesOfDiff(r, files)))

\* the rest of the iteration: the diff request, then the commit
GitlabDiff ==
    /\ pc = "diff"
    /\ \E r \in DiffResponsesAt(Entry), files \in DiffChoicesAt(Entry) :
          /\ resp' = r
          /\ nreq' = nreq + 1
          /\ IF ~Failed(r) /\ r.body = "invalid"
             THEN Raise("JSONDecodeError") /\ UNCHANGED result
             ELSE IF detail.body = "invalid"
             THEN Raise("JSONDecodeError") /\ UNCHANGED result
             ELSE IF detail.body = "list"
             THEN Raise("AttributeError") /\ UNCHANGED result
             ELSE /\ result' = AfterDiff(result, ShaOf(page, i), detail.data.date, r, files)
                  /\ Continue
                  /\ UNCHANGED exc
    /\ detail' = [body |-> "none", data |-> NoDetail]
    /\ UNCHANGED <<call, ret, window,
                   specs, github_token, gitlab_token, env_github, env_gitlab, analyze,
                   hist, idx, parsed, page_len, pages, results, reports,
                   total_commits, total_errors>>

(***************************************************************************)
(* Time: datetimes, zones and the hackathon window                         *)
(* (src/src/temporal.py, src/src/config.py).                               *)
(***************************************************************************)
\* number of days of 2026 before month mo
DaysBefore(mo) ==
    CASE mo = 1 -> 0 [] mo = 2 -> 31 [] mo = 3 -> 59 [] mo = 4 -> 90 [] mo = 5 -> 120
      [] mo = 6 -> 151 [] mo = 7 -> 181 [] mo = 8 -> 212 [] mo = 9 -> 243
      [] mo = 10 -> 273 [] mo = 11 -> 304 [] mo = 12 -> 334

\* the reading 2026-mo-d T h:m, in minutes since 2026-01-01T00:00
At(mo, d, h, m) == ((DaysBefore(mo) + d - 1) * 24 + h) * 60 + m

\* the IANA zones of the model
Zones == {"UTC", "America/New_York"}

\* America/New_York: standard and daylight offsets, and the UTC instants of
\* its two transitions of 2026
EST == 0 - 300

EDT == 0 - 240

SpringForward == At(3, 8, 7, 0)

FallBack == At(11, 1, 6, 0)

\* ZoneInfo(tz).utcoffset at the UTC instant t
OffsetAtInstant(tz, t) ==
    IF tz = "UTC" THEN 0
    ELSE IF SpringForward <= t /\ t < FallBack THEN EDT ELSE EST

\* ZoneInfo(tz).utcoffset of the wall-clock reading w with fold = 0: a reading
\* of the skipped hour takes the offset before the transition, a reading of
\* the repeated hour its first occurrence
OffsetAtWall(tz, w) ==
    IF tz = "UTC" THEN 0
    ELSE IF w < SpringForward + EDT THEN EST
    ELSE IF w < FallBack + EDT THEN EDT
    ELSE EST

\* a datetime: its wall-clock reading, its utcoffset and its tzinfo, which is
\* "naive" (None), "fixed" (a datetime.timezone) or the key of a ZoneInfo
Datetime(wall, off, tz) == [wall |-> wall, off |-> off, tz |-> tz]

\* the UTC instant of an aware datetime
Instant(dt) == dt.wall - dt.off

\* datetime.fromisoformat(raw_value.replace("Z", "+00:00")), for a text that parses
fromisoformat(raw) ==
    IF raw.kind = "naive" THEN Datetime(raw.local, 0, "naive")
    ELSE Datetime(raw.local, raw.off, "fixed")

\* _parse_datetime(raw_value, default_tz); default_tz is a zone key or "none"
_parse_datetime(raw_value, default_tz) ==
    LET dt == fromisoformat(raw_value)
    IN  IF dt.tz = "naive"
        THEN IF default_tz = "none" THEN Datetime(dt.wall, 0, "fixed")
             ELSE Datetime(dt.wall, OffsetAtWall(default_tz, dt.wall), default_tz)
        ELSE dt

\* dt.astimezone(ZoneInfo(tz)) of an aware datetime: the same datetime when its
\* tzinfo is that zone already, else the reading of its instant in the zone
astimezone(dt, tz) ==
    IF dt.tz = tz THEN dt
    ELSE LET off == OffsetAtInstant(tz, Instant(dt))
         IN  Datetime(Instant(dt) + off, off, tz)

\* mutant of Less: every comparison is by UTC instant
LessByInstant(a, b) == Instant(a) < Instant(b)

\* a < b for aware datetimes: two datetimes of one tzinfo are compared by
\* their wall-clock readings (utcoffset and fold ignored), others by instant
Less(a, b) ==
    IF a.tz = b.tz /\ a.tz \in Zones THEN a.wall < b.wall
    ELSE Instant(a) < Instant(b)

\* HackathonWindow
HackathonWindow(start_datetime, end_datetime, timezone) ==
    [start_datetime |-> start_datetime, end_datetime |-> end_datetime,
     timezone |-> timezone]

\* whether _parse_datetime(raw_value) raises ValueError
ParseDatetimeRaises(raw_value) == ~ParsesAsIso(raw_value)

\* the start_dt and end_dt of parse_hackathon_window, before its check
WindowStart(w) == astimezone(_parse_datetime(w.start_datetime, w.timezone), w.timezone)

WindowEnd(w) == astimezone(_parse_datetime(w.end_datetime, w.timezone), w.timezone)

\* mutant of WindowRaises: the order of the endpoints is not checked
WindowRaisesUnparsedOnly(w) ==
    ParseDatetimeRaises(w.start_datetime) \/ ParseDatetimeRaises(w.end_datetime)

\* whether parse_hackathon_window(window) raises ValueError
WindowRaises(w) ==
    \/ ParseDatetimeRaises(w.start_datetime)
    \/ ParseDatetimeRaises(w.end_datetime)
    \/ Less(WindowEnd(w), WindowStart(w))

\* the commit_dt of classify_commit and of analyze_repo's loop
CommitDt(commit, w) == astimezone(_parse_datetime(commit.timestamp, "none"), w.timezone)

\* classify_commit(commit, window): the period, or "ValueError" when it raises
classify_commit(commit, w) ==
    IF WindowRaises(w) \/ ParseDatetimeRaises(commit.timestamp) THEN "ValueError"
    ELSE IF Less(CommitDt(commit, w), WindowStart(w)) THEN "pre"
    ELSE IF Less(WindowEnd(w), CommitDt(commit, w)) THEN "post"
    ELSE "in"

(***************************************************************************)
(* ingest_repo, up to the first request.                                   *)
(***************************************************************************)
\* mutant of AfterInvalidURL: the failure is reported as a warning
AfterInvalidURLAsWarning(res, msg) == AddWarning(res, msg)

\* except ValueError as exc: result.errors.append(str(exc))
AfterInvalidURL(res, msg) == AddError(res, msg)

IngestStart ==
    /\ pc = "start"
    /\ LET spec == specs[idx]
           p    == parse_repo_url(spec.repo_url)
           r0   == NewResult(spec)
       IN  /\ parsed' = p
           /\ IF p.provider = "ValueError"
              THEN result' = AfterInvalidURL(r0, p.host) /\ pc' = "returned"
              ELSE IF p.provider = "unknown"
              THEN /\ result' = AddWarning(r0, UnsupportedHostMsg(p.host, spec.repo_url))
                   /\ pc' = "returned"
              ELSE result' = r0 /\ pc' = "list"
    /\ page' = 1
    /\ page_len' = 0
    /\ i' = 0
    /\ detail' = [body |-> "none", data |-> NoDetail]
    /\ resp' = NoResponse
    /\ pages' = <<>>
    /\ nreq' = 0
    /\ UNCHANGED <<call, ret, window,
                   specs, github_token, gitlab_token, env_github, env_gitlab, analyze,
                   hist, idx, exc, results, reports, total_commits, total_errors>>

(***************************************************************************)
(* Temporal analysis (src/src/temporal.py).                                *)
(***************************************************************************)
\* the absent commit (None where a Commit is expected)
NoCommit == Commit(None, EmptyStr, <<>>)

\* mutant of Pct: the division is not guarded (den = 0 stands for the
\* ZeroDivisionError)
PctUnguarded(pre, total) == [num |-> pre * 100, den |-> total]

\* (pre_window / total_commits * 100.0) if total_commits else 0.0, as the
\* fraction num/den
Pct(pre, total) ==
    IF total # 0 THEN [num |-> pre * 100, den |-> total] ELSE [num |-> 0, den |-> 1]

\* pre_window_pct > k
PctAbove(p, k) == p.num > k * p.den

\* f"{pre_window_pct:.1f}": the tenths, a half rounded to even (the float of
\* a ratio of fewer than 16 commits rounds as the ratio itself does)
FormatPct(p) ==
    LET q == (p.num * 10) \div p.den
        r == (p.num * 10) % p.den
        t == IF 2 * r > p.den \/ (2 * r = p.den /\ q % 2 = 1) THEN q + 1 ELSE q
    IN  IntToStr(t \div 10) \o <<".">> \o IntToStr(t % 10)

\* len(largest_pre_commit.files_changed) if largest_pre_commit else 0
LargestPreSize(largest_pre_commit) ==
    IF largest_pre_commit = NoCommit THEN 0 ELSE Len(largest_pre_commit.files_changed)

RiskOutcome(flag, reason) == [flag |-> flag, reason |-> reason]

PctHighReason(p) ==
    FormatPct(p) \o <<"% of commits were made before the hackathon window.">>

PctMediumReason(p) ==
    FormatPct(p) \o <<"% of commits were made before the hackathon window (>20%).">>

FilesReason(n, limit) ==
    <<"Largest pre-window commit touched ">> \o IntToStr(n) \o <<" files (>">>
        \o IntToStr(limit) \o <<").">>

\* pre_window_pct >= k
PctAtLeast(p, k) == p.num >= k * p.den

\* mutant of _derive_risk: the thresholds are inclusive
_derive_riskInclusive(pre_window_pct, largest_pre_commit, total) ==
    LET largest_pre_size == LargestPreSize(largest_pre_commit)
    IN  IF total = 0
        THEN RiskOutcome("low", <<"No commits found; temporal originality risk is low.">>)
        ELSE IF PctAtLeast(pre_window_pct, 50)
        THEN RiskOutcome("high", PctHighReason(pre_window_pct))
        ELSE IF largest_pre_size >= 20
        THEN RiskOutcome("high", FilesReason(largest_pre_size, 20))
        ELSE IF PctAtLeast(pre_window_pct, 20)
        THEN RiskOutcome("medium", PctMediumReason(pre_window_pct))
        ELSE IF largest_pre_size >= 10
        THEN RiskOutcome("medium", FilesReason(largest_pre_size, 10))
        ELSE RiskOutcome("low", <<"Most commits were made during the hackathon window.">>)

\* mutant of _derive_risk: both percentage rules are tried before the file
\* count rules
_derive_riskPercentFirst(pre_window_pct, largest_pre_commit, total) ==
    LET largest_pre_size == LargestPreSize(largest_pre_commit)
    IN  IF total = 0
        THEN RiskOutcome("low", <<"No commits found; temporal originality risk is low.">>)
        ELSE IF PctAbove(pre_window_pct, 50)
        THEN RiskOutcome("high", PctHighReason(pre_window_pct))
        ELSE IF PctAbove(pre_window_pct, 20)
        THEN RiskOutcome("medium", PctMediumReason(pre_window_pct))
        ELSE IF largest_pre_size > 20
        THEN RiskOutcome("high", FilesReason(largest_pre_size, 20))
        ELSE IF largest_pre_size > 10
        THEN RiskOutcome("medium", FilesReason(largest_pre_size, 10))
        ELSE RiskOutcome("low", <<"Most commits were made during the hackathon window.">>)

_derive_risk(pre_window_pct, largest_pre_commit, total) ==
    LET largest_pre_size == LargestPreSize(largest_pre_commit)
    IN  IF total = 0
        THEN RiskOutcome("low", <<"No commits found; temporal originality risk is low.">>)
        ELSE IF PctAbove(pre_window_pct, 50)
        THEN RiskOutcome("high", PctHighReason(pre_window_pct))
        ELSE IF largest_pre_size > 20
        THEN RiskOutcome("high", FilesReason(largest_pre_size, 20))
        ELSE IF PctAbove(pre_window_pct, 20)
        THEN RiskOutcome("medium", PctMediumReason(pre_window_pct))
        ELSE IF largest_pre_size > 10
        THEN RiskOutcome("medium", FilesReason(largest_pre_size, 10))
        ELSE RiskOutcome("low", <<"Most commits were made during the hackathon window.">>)

\* whether analyze_repo(result, window) raises ValueError: it parses the
\* window, then every commit's timestamp
AnalyzeRaises(res, w) ==
    \/ WindowRaises(w)
    \/ \E k \in 1..Len(res.commits) : ParseDatetimeRaises(res.commits[k].timestamp)

\* mutant of BucketOf: a commit at the very start of the window counts as
\* pre-window
BucketOfStartExcluded(commit, w) ==
    IF ~Less(WindowStart(w), CommitDt(commit, w)) THEN "pre"
    ELSE IF Less(WindowEnd(w), CommitDt(commit, w)) THEN "post"
    ELSE "in"

\* the bucket that analyze_repo's loop appends the commit to
BucketOf(commit, w) ==
    IF Less(CommitDt(commit, w), WindowStart(w)) THEN "pre"
    ELSE IF Less(WindowEnd(w), CommitDt(commit, w)) THEN "post"
    ELSE "in"

\* pre_commits, in_commits, post_commits
Bucket(commits, w, period) == SelectSeq(commits, LAMBDA c : BucketOf(c, w) = period)

\* mutant of MaxFrom: a later commit of equal size replaces the earlier one
RECURSIVE MaxFromLast(_, _, _)
MaxFromLast(q, k, best) ==
    IF k > Len(q) THEN best
    ELSE IF Len(q[k].files_changed) >= Len(best.files_changed)
    THEN MaxFromLast(q, k + 1, q[k])
    ELSE MaxFromLast(q, k + 1, best)

\* max(q, key=len(files_changed)) from position k on, best being the maximum
\* so far: only a strictly greater key replaces it
RECURSIVE MaxFrom(_, _, _)
MaxFrom(q, k, best) ==
    IF k > Len(q) THEN best
    ELSE IF Len(q[k].files_changed) > Len(best.files_changed)
    THEN MaxFrom(q, k + 1, q[k])
    ELSE MaxFrom(q, k + 1, best)

\* min(q, key=_parse_datetime(timestamp)) from position k on
RECURSIVE MinFrom(_, _, _)
MinFrom(q, k, best) ==
    IF k > Len(q) THEN best
    ELSE IF Less(_parse_datetime(q[k].timestamp, "none"),
                 _parse_datetime(best.timestamp, "none"))
    THEN MinFrom(q, k + 1, q[k])
    ELSE MinFrom(q, k + 1, best)

\* analyze_repo(result, window), when it does not raise
analyze_repo(res, w) ==
    LET pre_commits   == Bucket(res.commits, w, "pre")
        in_commits    == Bucket(res.commits, w, "in")
        post_commits  == Bucket(res.commits, w, "post")
        total         == Len(res.commits)
        pct           == Pct(Len(pre_commits), total)
        largest       == IF pre_commits # <<>> THEN MaxFrom(pre_commits, 2, pre_commits[1])
                         ELSE NoCommit
        first         == IF in_commits # <<>> THEN MinFrom(in_commits, 2, in_commits[1])
                         ELSE NoCommit
        risk          == _derive_risk(pct, largest, total)
    IN  [team |-> res.spec.team, repo_url |-> res.spec.repo_url,
         total_commits |-> total,
         pre_window |-> Len(pre_commits),
         in_window |-> Len(in_commits),
         post_window |-> Len(post_commits),
         pre_window_pct |-> pct,
         largest_pre_commit |-> largest,
         first_in_window_commit |-> first,
         risk_flag |-> risk.flag,
         risk_reason |-> risk.reason]

(***************************************************************************)
(* cli.main: the body of the loop over specs after ingest_repo returned,   *)
(* and the summary after the last spec.                                    *)
(***************************************************************************)
MainStep ==
    /\ pc = "returned"
    /\ total_commits' = total_commits + Len(result.commits)
    /\ total_errors' = total_errors + Len(result.errors)
    /\ IF analyze /\ AnalyzeRaises(result, window)
       THEN /\ pc' = "raised"
            /\ exc' = Exception("analyze_repo", "ValueError")
            /\ UNCHANGED <<idx, results, reports>>
       ELSE /\ results' = Append(results, result)
            /\ reports' = IF analyze THEN Append(reports, analyze_repo(result, window))
                          ELSE reports
            /\ idx' = idx + 1
            /\ pc' = IF idx = Len(specs) THEN "done" ELSE "start"
            /\ UNCHANGED exc
    /\ UNCHANGED <<call, ret, window,
                   specs, github_token, gitlab_token, env_github, env_gitlab, analyze,
                   hist, result, parsed, page, page_len, i, detail, resp, pages, nreq>>

(***************************************************************************)
(* Inputs.                                                                 *)
(***************************************************************************)
\* the secret of the runs that have one
Secret == <<"glpat-s3cr3t">>

GithubUrl == <<"https://", "github.com", "/", "octocat", "/", "hello-world", ".git">>

GitlabUrl == <<"https://", "gitlab", ".com", "/", "group", "/", "subgroup", "/", "project">>

\* a clone URL that carries its credentials
CredentialUrl ==
    <<"https://", "oauth2:", "glpat-s3cr3t", "@", "gitlab", ".com", "/", "group", "/",
      "project">>

UnknownHostUrl == <<"https://", "example.com", "/", "org", "/", "repo", ".git">>

ShortGithubUrl == <<"https://", "github.com", "/", "octocat">>

NoSchemeUrl == <<"github.com", "/", "octocat", "/", "hello-world">>

ShortGitlabUrl == <<"https://", "gitlab", ".com", "/", "group">>

UrlPool ==
    {GithubUrl, GitlabUrl, CredentialUrl, UnknownHostUrl, ShortGithubUrl, ShortGitlabUrl,
     NoSchemeUrl}

\* the window of the tests: 2026-02-20T09:00 to 2026-02-22T17:00, New York
TestWindow ==
    HackathonWindow(IsoNaive(At(2, 20, 9, 0)), IsoNaive(At(2, 22, 17, 0)),
                    "America/New_York")

\* a window that ends before it starts
InvertedWindow ==
    HackathonWindow(IsoNaive(At(2, 22, 17, 0)), IsoNaive(At(2, 20, 9, 0)), "UTC")

\* a window that ends when it starts
PointWindow ==
    HackathonWindow(IsoNaive(At(2, 20, 9, 0)), IsoNaive(At(2, 20, 9, 0)), "UTC")

\* a window given with explicit UTC endpoints
UtcWindow ==
    HackathonWindow(IsoZ(At(2, 20, 14, 0)), IsoZ(At(2, 22, 22, 0)), "UTC")

\* a window that ends, with an explicit offset, at 01:30 daylight time of the
\* night the clocks go back in New York (2026-11-01T05:30Z)
FallBackWindow ==
    HackathonWindow(Iso(At(10, 31, 9, 0), EDT), Iso(At(11, 1, 1, 30), EDT),
                    "America/New_York")

WindowPool == {TestWindow, InvertedWindow, PointWindow, UtcWindow, FallBackWindow}

\* the token given on the command line and the one of the environment
TokenConfig(arg, env) == [arg |-> arg, env |-> env]

TokenConfigs ==
    { TokenConfig(None, None), TokenConfig(None, Secret), TokenConfig(<<>>, Secret),
      TokenConfig(Secret, None) }

IsApiUrl(u) == parse_repo_url(u).provider \in {"github", "gitlab"}

Histories == {f * per_page + s : f \in 0..MaxFullPages, s \in 0..MaxShort}

\* no function is called directly
NoCall == [fn |-> "none"]

\* what a direct call leaves: nothing yet, a value, or an exception
NoReturn == [kind |-> "none"]

Returned(v) == [kind |-> "value", value |-> v]

Raised(type) == [kind |-> "raise", type |-> type]

\* what does not depend on the inputs
InitControl ==
    /\ idx = 1
    /\ pc = "start"
    /\ exc = NoException
    /\ result = [spec |-> [team |-> 0, repo_url |-> <<>>], commits |-> <<>>,
                 errors |-> <<>>, warnings |-> <<>>]
    /\ parsed = ParsedRepoURL("unknown", <<>>, None, None, None)
    /\ page = 1
    /\ page_len = 0
    /\ i = 0
    /\ detail = [body |-> "none", data |-> NoDetail]
    /\ resp = NoResponse
    /\ pages = <<>>
    /\ nreq = 0
    /\ results = <<>>
    /\ reports = <<>>
    /\ total_commits = 0
    /\ total_errors = 0

InitTokens(c) ==
    /\ github_token = c.arg
    /\ gitlab_token = c.arg
    /\ env_github = c.env
    /\ env_gitlab = c.env

\* A run over one repository: any URL of the pool, any token configuration, a
\* history of up to MaxFullPages full pages (short for the URL with credentials,
\* none for the URLs that are never fetched).
Init ==
    /\ \E u \in UrlPool :
          /\ specs = <<[team |-> 1, repo_url |-> u]>>
          /\ \E h \in Histories :
                /\ hist = <<h>>
                /\ ~IsApiUrl(u) => h = 0
                /\ u = CredentialUrl => h <= MaxShort
    /\ \E c \in TokenConfigs : InitTokens(c)
    /\ analyze \in BOOLEAN
    /\ analyze = FALSE => github_token = None /\ env_github = None
    /\ window = TestWindow
    /\ call = NoCall
    /\ ret = NoReturn
    /\ InitControl

\* A run over several repositories, each with a history of at most one commit.
InitRun ==
    /\ \E n \in 2..MaxRepos :
          /\ \E us \in [1..n -> {GithubUrl, GitlabUrl, UnknownHostUrl, ShortGithubUrl}] :
                specs = [k \in 1..n |-> [team |-> k, repo_url |-> us[k]]]
          /\ hist \in [1..n -> {0, 1}]
          /\ \A k \in 1..n : ~IsApiUrl(specs[k].repo_url) => hist[k] = 0
    /\ \E c \in {TokenConfig(None, None), TokenConfig(Secret, None)} : InitTokens(c)
    /\ analyze \in BOOLEAN
    /\ window \in {TestWindow, InvertedWindow}
    /\ call = NoCall
    /\ ret = NoReturn
    /\ InitControl

Next ==
    \/ IngestStart
    \/ GithubListPage
    \/ GitlabListPage
    \/ GithubItem
    \/ GitlabItem
    \/ GitlabDiff
    \/ MainStep

Spec == Init /\ [][Next]_vars

SpecRun == InitRun /\ [][Next]_vars

\* A run over one repository of either provider, fetched without a token and
\* not analysed, with a history of up to MaxFullPages full pages.
InitLive ==
    /\ \E u \in {GithubUrl, GitlabUrl} : specs = <<[team |-> 1, repo_url |-> u]>>
    /\ \E h \in Histories : hist = <<h>>
    /\ InitTokens(TokenConfig(None, None))
    /\ analyze = FALSE
    /\ window = TestWindow
    /\ call = NoCall
    /\ ret = NoReturn
    /\ InitControl

\* That run as the interpreter executes it: one thread, no step of which waits
\* on another, so a step that can be taken is taken.
SpecLive == InitLive /\ [][Next]_vars /\ WF_vars(Next)

(***************************************************************************)
(* Direct calls of the pure functions: the state holds one call, and the   *)
(* action of the function called computes what it returns.                 *)
(***************************************************************************)
\* a files_changed list of n names
Files(n) == [k \in 1..n |-> "file.py"]

\* the commit timestamps of the direct calls: around the start and the end of
\* TestWindow and around the end of FallBackWindow, in the three ISO forms,
\* and two texts that do not parse
TimestampPool ==
    {IsoZ(At(2, 20, 13, 59)), IsoZ(At(2, 20, 14, 0)), IsoZ(At(2, 20, 14, 1)),
     IsoZ(At(2, 22, 22, 0)), IsoZ(At(2, 22, 22, 1)),
     Iso(At(2, 20, 9, 0), EST), IsoNaive(At(2, 20, 14, 0)),
     IsoZ(At(11, 1, 5, 30)), IsoZ(At(11, 1, 5, 45)), IsoZ(At(11, 1, 6, 15)),
     IsoZ(At(11, 1, 6, 31)),
     EmptyStr, NotIso}

ClassifyCalls ==
    {[fn |-> "classify_commit", commit |-> Commit(<<"sha1">>, t, Files(1)), window |-> w] :
        t \in TimestampPool, w \in WindowPool}

\* the file counts of the largest pre-window commit, around both thresholds
FileCounts == {0, 1, 10, 11, 20, 21}

LargestPool == {NoCommit} \cup {Commit(<<"sha1">>, IsoZ(At(2, 19, 12, 0)), Files(n)) : n \in FileCounts}

\* every share pre/total of up to MaxTotal commits, with every largest commit
RiskCalls ==
    {[fn |-> "_derive_risk", pre_window_pct |-> Pct(x[2], x[1]), largest_pre_commit |-> l,
      total_commits |-> x[1]] :
        x \in {y \in (0..MaxTotal) \X (0..MaxTotal) : y[2] <= y[1]}, l \in LargestPool}

\* the network locations and the path segments of the URLs resolved directly
HostPool ==
    { <<"github.com">>, <<"www.", "github.com">>, <<"GitHub.com">>, <<"gitlab", ".com">>,
      <<"my-", "gitlab", ".example.org">>, <<"GitLab", ".com">>, <<"example.com">>,
      <<"user@", "github.com">>, <<>> }

SegmentPool ==
    { <<"octocat">>, <<"hello-world", ".git">>, <<".git">>, <<"name", ".git", ".git">> }

SegmentLists == UNION {[1..n -> SegmentPool] : n \in 0..MaxSegs}

\* "/" + "/".join(segs)
RECURSIVE PathOf(_)
PathOf(segs) == IF segs = <<>> THEN <<>> ELSE <<"/">> \o Head(segs) \o PathOf(Tail(segs))

BuildUrl(host, segs) == <<"https://">> \o host \o PathOf(segs)

ParseCalls ==
    {[fn |-> "parse_repo_url", repo_url |-> BuildUrl(h, segs)] :
        h \in HostPool, segs \in SegmentLists}
        \cup {[fn |-> "parse_repo_url", repo_url |-> u] :
                u \in UrlPool \cup {<<"https://", "github.com", "/", "/", "octocat">>,
                                    <<"https://", "github.com", "/", "octocat", "/",
                                      "hello-world", "/">>}}

\* the commits of the results analysed directly: what a commit at position k
\* of the list is made of
CommitShape(timestamp, n) == [timestamp |-> timestamp, n |-> n]

ShapePool ==
    {CommitShape(IsoZ(At(2, 19, 12, 0)), 1), CommitShape(IsoZ(At(2, 18, 12, 0)), 2),
     CommitShape(IsoZ(At(2, 20, 14, 30)), 1), CommitShape(Iso(At(2, 20, 9, 0), EST), 1),
     CommitShape(IsoZ(At(2, 22, 22, 1)), 3)}

CommitLists ==
    UNION {{[k \in 1..n |-> Commit(<<"sha">> \o IntToStr(k), f[k].timestamp, Files(f[k].n))] :
              f \in [1..n -> ShapePool]} : n \in 0..MaxCommits}

AnalyzeCalls ==
    {[fn |-> "analyze_repo",
      result |-> [spec |-> [team |-> 1, repo_url |-> GithubUrl], commits |-> cs,
                  errors |-> <<>>, warnings |-> <<>>],
      window |-> w] :
        cs \in CommitLists, w \in {TestWindow, InvertedWindow}}

\* the raw timestamps of the direct calls of _normalize_timestamp: those of
\* TimestampPool, the tests' value in its "+00:00" form, offsets east and west
\* of UTC, and the first representable minute read in UTC and east and west
\* of it
NormalizePool ==
    TimestampPool \cup
    {Iso(At(2, 2, 11, 30), 0), Iso(At(2, 2, 11, 30), 330), Iso(At(2, 2, 11, 30), EST),
     IsoZ(DatetimeMin), Iso(DatetimeMin, 60), Iso(DatetimeMin, EST)}

NormalizeCalls == {[fn |-> "_normalize_timestamp", raw_value |-> t] : t \in NormalizePool}

Calls == ClassifyCalls \cup RiskCalls \cup ParseCalls \cup AnalyzeCalls \cup NormalizeCalls

\* the pipeline is idle
InitIdle ==
    /\ specs = <<>>
    /\ hist = <<>>
    /\ InitTokens(TokenConfig(None, None))
    /\ analyze = FALSE
    /\ window = TestWindow
    /\ InitControl

InitFn ==
    /\ InitIdle
    /\ call \in Calls
    /\ ret = NoReturn

pipeline ==
    <<specs, github_token, gitlab_token, env_github, env_gitlab, analyze, window, hist,
      idx, pc, exc, result, parsed, page, page_len, i, detail, resp, pages, nreq,
      results, reports, total_commits, total_errors>>

Calling(fn) == call.fn = fn /\ ret = NoReturn

ClassifyCommit ==
    /\ Calling("classify_commit")
    /\ LET v == classify_commit(call.commit, call.window)
       IN  ret' = IF v = "ValueError" THEN Raised("ValueError") ELSE Returned(v)
    /\ UNCHANGED <<pipeline, call>>

DeriveRisk ==
    /\ Calling("_derive_risk")
    /\ ret' = Returned(_derive_risk(call.pre_window_pct, call.largest_pre_commit,
                                    call.total_commits))
    /\ UNCHANGED <<pipeline, call>>

ParseRepoUrl ==
    /\ Calling("parse_repo_url")
    /\ LET p == parse_repo_url(call.repo_url)
       IN  ret' = IF p.provider = "ValueError" THEN Raised("ValueError") ELSE Returned(p)
    /\ UNCHANGED <<pipeline, call>>

AnalyzeRepo ==
    /\ Calling("analyze_repo")
    /\ ret' = IF AnalyzeRaises(call.result, call.window) THEN Raised("ValueError")
              ELSE Returned(analyze_repo(call.result, call.window))
    /\ UNCHANGED <<pipeline, call>>

NormalizeTimestamp ==
    /\ Calling("_normalize_timestamp")
    /\ ret' = IF _normalize_timestampRaises(call.raw_value) THEN Raised("OverflowError")
              ELSE Returned(_normalize_timestamp(call.raw_value))
    /\ UNCHANGED <<pipeline, call>>

NextFn ==
    \/ ClassifyCommit
    \/ DeriveRisk
    \/ ParseRepoUrl
    \/ AnalyzeRepo
    \/ NormalizeTimestamp

SpecFn == InitFn /\ [][NextFn]_vars

(***************************************************************************)
(* Properties.                                                             *)
(***************************************************************************)
\* the step is a list-page exchange
ListStep == pc = "list" /\ resp'.for = "list"

\* the step issued a detail request for the current entry
DetailStep == pc = "item" /\ nreq' = nreq + 1 /\ resp'.for = "detail"

\* the step appended exactly msg-like text to q and nothing else
AppendedOne(q, qNew) == Len(qNew) = Len(q) + 1 /\ SubSeq(qNew, 1, Len(q)) = q

Last(q) == q[Len(q)]

\* once ingest_repo has returned, nothing more is requested for that repository
NoRequestOnceReturned == pc = "returned" => nreq' = nreq /\ pages' = pages

\* the tokens in force in this run
SuppliedTokens ==
    {t \in {TokenOrEnv(github_token, env_github), TokenOrEnv(gitlab_token, env_gitlab)} :
        Truthy(t)}

Messages(res) ==
    {res.errors[k] : k \in 1..Len(res.errors)}
        \cup {res.warnings[k] : k \in 1..Len(res.warnings)}

\* C1 (as claimed): ingest_repo never raises; whatever the server answers, the
\* call ends by returning its IngestResult.
C1_IngestNeverRaises == exc.in # "ingest_repo"

\* C2: a 401/403 answer to a list page appends exactly one "access denied, token
\* may lack scope" error and no warning when a non-empty token is in force, and
\* exactly one "may be private, missing token, skipped" warning and no error
\* when none is; either way ingest_repo returns at once and requests nothing
\* more for the repository.  Both fetchers.
C2_DeniedListPage ==
    [][ /\ (ListStep /\ resp'.kind = "http" /\ resp'.status \in {401, 403}) =>
              /\ pc' = "returned"
              /\ result'.commits = result.commits
              /\ IF Truthy(Token)
                 THEN /\ AppendedOne(result.errors, result'.errors)
                      /\ Contains(Last(result'.errors), <<" access denied for ">>)
                      /\ Contains(Last(result'.errors), <<"; token may lack scope">>)
                      /\ result'.warnings = result.warnings
                 ELSE /\ AppendedOne(result.warnings, result'.warnings)
                      /\ Contains(Last(result'.warnings), <<" repo may be private: ">>)
                      /\ Contains(Last(result'.warnings), <<"; missing token, skipped">>)
                      /\ result'.errors = result.errors
        /\ NoRequestOnceReturned ]_vars

\* C2 witness: an unauthenticated GitLab fetch was answered 401 on its second
\* list page and returned with the warning and no error.
C2_Witness ==
    /\ pc = "returned"
    /\ parsed.provider = "gitlab"
    /\ ~Truthy(Token)
    /\ resp = Response("list", "http", 401, "object")
    /\ Len(pages) = 2
    /\ result.errors = <<>>
    /\ Len(result.warnings) = 1

\* C3: a list page that fails at transport level, answers 404 or answers any
\* other status >= 400 (401/403 apart) appends exactly one error (embedding the
\* status code for the other statuses) and no warning, and ends the fetch at
\* once: no retry, no later page, no detail request.
C3_FailedListPage ==
    [][ /\ (ListStep /\ (resp'.kind = "none" \/ (resp'.status >= 400
                                                   /\ resp'.status \notin {401, 403}))) =>
              /\ pc' = "returned"
              /\ result'.commits = result.commits
              /\ result'.warnings = result.warnings
              /\ AppendedOne(result.errors, result'.errors)
              /\ resp'.kind = "none" =>
                    Contains(Last(result'.errors), <<" request failed for ">>)
              /\ (resp'.kind = "http" /\ resp'.status = 404) =>
                    Contains(Last(result'.errors), <<" repo not found or unreachable: ">>)
              /\ (resp'.kind = "http" /\ resp'.status # 404) =>
                    Contains(Last(result'.errors),
                             <<" API error (">> \o IntToStr(resp'.status) \o <<") for ">>)
        /\ NoRequestOnceReturned ]_vars

\* C3 witness: the second list page answered 500 after a first page of commits,
\* and the fetch returned with that one error.
C3_Witness ==
    /\ pc = "returned"
    /\ resp = Response("list", "http", 500, "object")
    /\ Len(pages) = 2
    /\ Len(result.errors) = 1
    /\ nreq > 2

\* C4: list pages are requested with page size 100 and page numbers 1, 2, 3,
\* ... in order, none skipped or repeated, and a page is requested only after
\* the page before it answered with a list of exactly 100 items.
C4_Pagination ==
    /\ \A k \in 1..Len(pages) :
          /\ pages[k].page = k
          /\ pages[k].per_page = 100
          /\ k < Len(pages) => pages[k].items = 100
    /\ pc = "list" => page = Len(pages) + 1 /\ (page > 1 => pages[page - 1].items = 100)

\* C4 witness: pages 1 and 2 were requested, page 2 being short.
C4_Witness ==
    /\ Len(pages) = 2
    /\ pages[1].items = 100
    /\ pages[2].items = 1
    /\ pc = "returned"

\* C5: a failed detail request (transport failure or any status >= 400) appends
\* exactly one warning naming the sha, adds no commit and no error, and the
\* fetch goes on with the next entry, or the next page after the last entry of
\* a full page; it never aborts the fetch.
C5_DetailFailure ==
    [][ (DetailStep /\ Failed(resp')) =>
            /\ AppendedOne(result.warnings, result'.warnings)
            /\ Contains(Last(result'.warnings), ShaOf(page, i))
            /\ result'.commits = result.commits
            /\ result'.errors = result.errors
            /\ exc' = exc
            /\ i < page_len => pc' = "item" /\ i' = i + 1 /\ page' = page
            /\ (i = page_len /\ page_len = per_page) => pc' = "list" /\ page' = page + 1
            /\ (i = page_len /\ page_len < per_page) => pc' = "returned" ]_vars

\* C5 witness: the detail request of the first entry failed with 404, and the
\* fetch went on through the page to request page 2.
C5_Witness ==
    /\ pc = "returned"
    /\ Len(pages) = 2
    /\ pages[2].items = 0
    /\ Len(result.warnings) = 1
    /\ Contains(result.warnings[1], ShaOf(1, 1))
    /\ Len(result.commits) = per_page - 1
    /\ result.errors = <<>>

\* C6 (as claimed): a returned result with an error exposes no commits.
C6_NoPartialResult ==
    pc = "returned" => (result.errors # <<>> => result.commits = <<>>)

\* C9 (as claimed): no entry of errors or warnings of a returned result
\* contains the supplied token.
C9_TokenNeverReported ==
    pc = "returned" =>
        \A t \in SuppliedTokens : \A m \in Messages(result) : ~Contains(m, t)

\* C10 (as claimed): for a URL of unknown provider a fetch is attempted, and the
\* result carries an "unknown host" warning, no error and no commits.
C10_UnknownHostAttempted ==
    (pc = "returned" /\ parsed.provider = "unknown") =>
        /\ nreq >= 1
        /\ \E k \in 1..Len(result.warnings) :
              \E j \in 1..Len(result.warnings[k]) :
                 result.warnings[k][j] \in {"unable to clone unknown host, skipped",
                                            "unknown host"}
        /\ result.errors = <<>>
        /\ result.commits = <<>>

\* C7: fault isolation.  The results already returned are left unchanged by
\* every later step (whatever the server answers for a later repository), each
\* ingestion starts from an empty result of its own spec, and every message of
\* a returned result is about its own repository.
C7_FaultIsolation ==
    [][ /\ \A k \in 1..Len(results) :
              Len(results') >= k /\ results'[k] = results[k]
        /\ pc = "start" =>
              /\ result'.spec = specs[idx]
              /\ result'.commits = <<>>
              /\ Len(result'.errors) + Len(result'.warnings) <= 1
              /\ \A m \in Messages(result') : Contains(m, specs[idx].repo_url)
        /\ pc = "returned" =>
              \A m \in Messages(result) : Contains(m, specs[idx].repo_url)
        /\ \A k \in 1..Len(results') : results'[k].spec = specs[k] ]_vars

\* C7 witness: repository 1 was ingested with a commit, then repository 2's
\* fetch failed at transport level; result 1 is still the one that was returned.
C7_Witness ==
    /\ Len(results) = 2
    /\ Len(results[1].commits) = 1
    /\ results[1].errors = <<>>
    /\ results[2].commits = <<>>
    /\ \E k \in 1..Len(results[2].errors) :
          Contains(results[2].errors[k], <<" request failed for ">>)

\* C8 (as claimed): analysis never raises and stops the run before the later
\* repositories are processed; the loop reaches the final summary.
C8_AnalysisNeverStopsRun == ~(pc = "raised" /\ exc.in = "analyze_repo")

\* C11 (as claimed): classify_commit compares absolute instants, the window
\* inclusive at both ends: a commit's period is "pre" when its instant is
\* before the instant of the start, "post" when it is after the instant of the
\* end, and "in" otherwise (endpoints without offset being local times of the
\* window's zone).
C11_ClassifiesByInstant ==
    (call.fn = "classify_commit" /\ ret.kind = "value") =>
        LET t == Instant(_parse_datetime(call.commit.timestamp, "none"))
            s == Instant(_parse_datetime(call.window.start_datetime, call.window.timezone))
            e == Instant(_parse_datetime(call.window.end_datetime, call.window.timezone))
        IN  ret.value = IF t < s THEN "pre" ELSE IF t > e THEN "post" ELSE "in"

\* the number of files of a commit that may be absent
FilesOf(c) == IF c = NoCommit THEN 0 ELSE Len(c.files_changed)

\* C12: the risk scorer returns for every input (total_commits >= 0, any share,
\* any largest pre-window commit) the outcome of the first matching rule of
\* (1) no commits -> low, (2) share > 50% -> high, (3) largest commit > 20
\* files -> high, (4) share > 20% -> medium, (5) largest commit > 10 files ->
\* medium, (6) low; every threshold is strict, and the reason is the one of
\* the rule that fired.
C12_RiskRules ==
    (call.fn = "_derive_risk" /\ ret # NoReturn) =>
        /\ ret.kind = "value"
        /\ LET p == call.pre_window_pct
               n == FilesOf(call.largest_pre_commit)
               rule == IF call.total_commits = 0 THEN 1
                       ELSE IF p.num > 50 * p.den THEN 2
                       ELSE IF n > 20 THEN 3
                       ELSE IF p.num > 20 * p.den THEN 4
                       ELSE IF n > 10 THEN 5
                       ELSE 6
           IN  /\ ret.value.flag = CASE rule \in {2, 3} -> "high"
                                     [] rule \in {4, 5} -> "medium"
                                     [] OTHER -> "low"
               /\ rule = 1 <=> Contains(ret.value.reason, <<"No commits found; temporal originality risk is low.">>)
               /\ rule \in {2, 4} <=>
                     Contains(ret.value.reason, <<"% of commits were made before the hackathon window.">>)
                     \/ Contains(ret.value.reason, <<"% of commits were made before the hackathon window (>20%).">>)
               /\ rule \in {3, 5} <=>
                     Contains(ret.value.reason,
                              <<"Largest pre-window commit touched ">> \o IntToStr(n)
                                  \o <<" files (>">>)

\* C12 witness: 1 of 5 commits before the window (exactly 20%), the largest of
\* 21 files: high, through the file-count rule.
C12_Witness ==
    /\ call.fn = "_derive_risk"
    /\ call.total_commits = 5
    /\ call.pre_window_pct = Pct(1, 5)
    /\ FilesOf(call.largest_pre_commit) = 21
    /\ ret.kind = "value"
    /\ ret.value.flag = "high"
    /\ Contains(ret.value.reason, <<"2", "1", " files (>">>)

\* low < medium < high
Rank(flag) == CASE flag = "low" -> 0 [] flag = "medium" -> 1 [] flag = "high" -> 2

\* the shares and the largest commits of the calls of the risk scorer
Shares == {Pct(x[2], x[1]) : x \in {y \in (1..MaxTotal) \X (0..MaxTotal) : y[2] <= y[1]}}

\* p <= q as fractions
ShareAtMost(p, q) == p.num * q.den <= q.num * p.den

\* C18: risk monotonicity.  For a non-empty commit list, the flag returned for
\* a share and a largest pre-window commit is at most (low < medium < high)
\* the flag of every greater share with the same largest commit, and at most
\* the flag of every largest commit of more files with the same share; with at
\* most 10 files the shares 0%, 25% and 60% give low, medium and high.
C18_RiskMonotone ==
    (call.fn = "_derive_risk" /\ call.total_commits > 0 /\ ret.kind = "value") =>
        /\ \A q \in Shares :
              ShareAtMost(call.pre_window_pct, q) =>
                 Rank(ret.value.flag)
                    <= Rank(_derive_risk(q, call.largest_pre_commit, call.total_commits).flag)
        /\ \A l \in LargestPool :
              FilesOf(call.largest_pre_commit) <= FilesOf(l) =>
                 Rank(ret.value.flag)
                    <= Rank(_derive_risk(call.pre_window_pct, l, call.total_commits).flag)
        /\ FilesOf(call.largest_pre_commit) <= 10 =>
              /\ call.pre_window_pct.num = 0 => ret.value.flag = "low"
              /\ call.pre_window_pct.num = 25 * call.pre_window_pct.den =>
                    ret.value.flag = "medium"
              /\ call.pre_window_pct.num = 60 * call.pre_window_pct.den =>
                    ret.value.flag = "high"

\* C18 witness: with a largest commit of 10 files, a share of 25% gave medium,
\* between the low of 0% and the high of 60%.
C18_Witness ==
    /\ call.fn = "_derive_risk"
    /\ call.pre_window_pct = Pct(1, 4)
    /\ FilesOf(call.largest_pre_commit) = 10
    /\ ret.kind = "value"
    /\ ret.value.flag = "medium"
    /\ _derive_risk(Pct(0, 4), call.largest_pre_commit, 4).flag = "low"
    /\ _derive_risk(Pct(3, 5), call.largest_pre_commit, 5).flag = "high"

\* the URL's host is a known provider's, and its path has fewer than 2
\* non-empty segments
KnownHostShortPath(u) ==
    /\ \/ Lower(UrlNetloc(u)) \in GITHUB_HOSTS
       \/ Contains(Lower(UrlNetloc(u)), <<"gitlab">>)
    /\ Len(SplitPath(UrlPath(u))) < 2

\* C13: for a URL of a known provider host (github.com, www.github.com, or a
\* host containing "gitlab") whose path has fewer than 2 non-empty segments,
\* resolution fails with the invalid-URL error and ingest_repo returns a
\* result with exactly that one error, no commits and no warnings, without
\* having issued any request.
C13_InvalidUrlIsOneError ==
    (pc \in {"list", "item", "diff", "returned", "raised"} /\ KnownHostShortPath(Url)) =>
        /\ pc = "returned"
        /\ parsed.provider = "ValueError"
        /\ Len(result.errors) = 1
        /\ Contains(result.errors[1], <<" URL: ">> \o Url)
        /\ result.errors[1][1] = "Invalid "
        /\ result.commits = <<>>
        /\ result.warnings = <<>>
        /\ nreq = 0
        /\ pages = <<>>

\* C13 witness: the GitLab URL with a single path segment was turned into a
\* result with the one error, and nothing was requested.
C13_Witness ==
    /\ pc = "returned"
    /\ Url = ShortGitlabUrl
    /\ result.errors = << <<"Invalid ", "GitLab", " URL: ">> \o ShortGitlabUrl >>
    /\ nreq = 0

\* the network location and the path segments of the URL resolved directly
CallHost == Lower(UrlNetloc(call.repo_url))

CallParts == SplitPath(UrlPath(call.repo_url))

\* s ends in ".git"
EndsInGit(s) == s # <<>> /\ Last(s) = ".git"

\* C14: for every URL whose host, compared case-insensitively, is exactly
\* github.com or www.github.com and whose path has at least 2 non-empty
\* segments, parse_repo_url returns provider github with owner the first
\* segment and repo the second segment less one trailing ".git"; the segments
\* after the second are ignored.
C14_GithubAddress ==
    (call.fn = "parse_repo_url" /\ ret # NoReturn
        /\ CallHost \in {<<"github.com">>, <<"www.", "github.com">>}
        /\ Len(CallParts) >= 2) =>
        /\ ret.kind = "value"
        /\ ret.value.provider = "github"
        /\ ret.value.host = CallHost
        /\ ret.value.owner = CallParts[1]
        /\ ret.value.repo = IF EndsInGit(CallParts[2])
                            THEN SubSeq(CallParts[2], 1, Len(CallParts[2]) - 1)
                            ELSE CallParts[2]
        /\ ret.value.namespace = None

\* C14 witness: https://GitHub.com/octocat/hello-world.git/octocat resolved to
\* octocat/hello-world on github.com.
C14_Witness ==
    /\ call.fn = "parse_repo_url"
    /\ call.repo_url = BuildUrl(<<"GitHub.com">>,
                                << <<"octocat">>, <<"hello-world", ".git">>, <<"octocat">> >>)
    /\ ret = Returned(ParsedRepoURL("github", <<"github.com">>, <<"octocat">>,
                                    <<"hello-world">>, None))

\* C15: for every URL whose host contains "gitlab" (and is not a GitHub host)
\* and whose path has N >= 2 non-empty segments, parse_repo_url returns
\* provider gitlab with namespace the first N-1 segments joined by "/" and repo
\* the last segment less one trailing ".git".
C15_GitlabAddress ==
    (call.fn = "parse_repo_url" /\ ret # NoReturn
        /\ Contains(CallHost, <<"gitlab">>)
        /\ CallHost \notin {<<"github.com">>, <<"www.", "github.com">>}
        /\ Len(CallParts) >= 2) =>
        LET N == Len(CallParts)
        IN  /\ ret.kind = "value"
            /\ ret.value.provider = "gitlab"
            /\ ret.value.host = CallHost
            /\ ret.value.namespace = Tail(PathOf(SubSeq(CallParts, 1, N - 1)))
            /\ ret.value.repo = IF EndsInGit(CallParts[N])
                                THEN SubSeq(CallParts[N], 1, Len(CallParts[N]) - 1)
                                ELSE CallParts[N]
            /\ ret.value.owner = None

\* C15 witness: https://gitlab.com/group/subgroup/project resolved to the
\* nested namespace group/subgroup and the repo project.
C15_Witness ==
    /\ call.fn = "parse_repo_url"
    /\ call.repo_url = GitlabUrl
    /\ ret = Returned(ParsedRepoURL("gitlab", <<"gitlab", ".com">>, None, <<"project">>,
                                    <<"group", "/", "subgroup">>))

\* C16 (as claimed): every address parse_repo_url returns with provider github
\* or gitlab has a repo that is non-empty and does not end in ".git", and
\* every address returned with provider unknown has no owner, namespace or
\* repo.
C16_ResolvedAddress ==
    (call.fn = "parse_repo_url" /\ ret.kind = "value") =>
        /\ ret.value.provider \in {"github", "gitlab"} =>
              /\ ret.value.repo # None
              /\ ret.value.repo # <<>>
              /\ ~EndsInGit(ret.value.repo)
        /\ ret.value.provider = "unknown" =>
              /\ ret.value.owner = None
              /\ ret.value.namespace = None
              /\ ret.value.repo = None

\* the window ends before it starts, both endpoints read in its zone
EndsBeforeStart(w) ==
    Instant(_parse_datetime(w.end_datetime, w.timezone))
        < Instant(_parse_datetime(w.start_datetime, w.timezone))

\* C17 (as claimed): a window that ends before it starts is rejected before
\* any repository is ingested: in a run configured with such a window no
\* ingestion is ever under way or completed, and nothing is requested.
C17_InvertedWindowFailsFast ==
    EndsBeforeStart(window) =>
        /\ pc \notin {"list", "item", "diff", "returned"}
        /\ nreq = 0
        /\ results = <<>>

\* the report says: no commits, all counts 0, share 0, no largest and no first
\* commit, low risk
EmptyReport(rep) ==
    /\ rep.total_commits = 0
    /\ rep.pre_window = 0
    /\ rep.in_window = 0
    /\ rep.post_window = 0
    /\ rep.pre_window_pct.num = 0
    /\ rep.pre_window_pct.den > 0
    /\ rep.largest_pre_commit = NoCommit
    /\ rep.first_in_window_commit = NoCommit
    /\ rep.risk_flag = "low"

\* C19: for an IngestResult without commits (an empty repository, a skipped
\* one or a failed fetch) analyze_repo returns total_commits = 0, the three
\* counts 0, pre_window_pct = 0 (no division by zero), no largest_pre_commit,
\* no first_in_window_commit and risk_flag low.
C19_EmptyResultIsLowRisk ==
    /\ \A k \in 1..Len(reports) :
          results[k].commits = <<>> =>
             /\ EmptyReport(reports[k])
             /\ reports[k].repo_url = results[k].spec.repo_url
    /\ (analyze /\ ~EndsBeforeStart(window)) => Len(reports) = Len(results)

\* C19 witness: a skipped repository (unknown host) and one whose fetch failed
\* at transport level were both analysed.
C19_Witness ==
    /\ Len(reports) = 2
    /\ parse_repo_url(results[1].spec.repo_url).provider = "unknown"
    /\ results[1].commits = <<>>
    /\ results[2].commits = <<>>
    /\ \E k \in 1..Len(results[2].errors) :
          Contains(results[2].errors[k], <<" request failed for ">>)
    /\ EmptyReport(reports[2])

\* the positions of the commits that classify_commit puts in the period
PositionsIn(cs, w, period) == {k \in 1..Len(cs) : classify_commit(cs[k], w) = period}

\* the instant of a commit's timestamp
CommitInstant(c) == Instant(_parse_datetime(c.timestamp, "none"))

\* C20: in every report, largest_pre_commit is absent iff no commit is
\* pre-window; otherwise it is the pre-window commit with the most changed
\* files, the first of them in input order when several have that many.
\* first_in_window_commit is absent iff no commit is in the window, otherwise
\* it is an in-window commit of the earliest timestamp.
C20_LargestAndFirst ==
    (call.fn = "analyze_repo" /\ ret.kind = "value") =>
        LET cs   == call.result.commits
            pre  == PositionsIn(cs, call.window, "pre")
            in   == PositionsIn(cs, call.window, "in")
            rep  == ret.value
        IN  /\ rep.largest_pre_commit = NoCommit <=> pre = {}
            /\ pre # {} =>
                  \E k \in pre :
                     /\ rep.largest_pre_commit = cs[k]
                     /\ \A j \in pre :
                           /\ Len(cs[j].files_changed) <= Len(cs[k].files_changed)
                           /\ Len(cs[j].files_changed) = Len(cs[k].files_changed) => k <= j
            /\ rep.first_in_window_commit = NoCommit <=> in = {}
            /\ in # {} =>
                  \E k \in in :
                     /\ rep.first_in_window_commit = cs[k]
                     /\ \A j \in in : CommitInstant(cs[k]) <= CommitInstant(cs[j])

\* C20 witness: two pre-window commits of equal size were followed by two
\* in-window commits, the later one first; the report names the first
\* pre-window commit and the earlier in-window commit.
C20_Witness ==
    /\ call.fn = "analyze_repo"
    /\ ret.kind = "value"
    /\ Len(call.result.commits) = 4
    /\ PositionsIn(call.result.commits, call.window, "pre") = {1, 2}
    /\ Len(call.result.commits[1].files_changed) = Len(call.result.commits[2].files_changed)
    /\ PositionsIn(call.result.commits, call.window, "in") = {3, 4}
    /\ CommitInstant(call.result.commits[4]) < CommitInstant(call.result.commits[3])
    /\ ret.value.largest_pre_commit = call.result.commits[1]
    /\ ret.value.first_in_window_commit = call.result.commits[4]

\* the call under way is a call of _normalize_timestamp that has ended
Normalized == call.fn = "_normalize_timestamp" /\ ret # NoReturn

\* C21 (as claimed): a call of _normalize_timestamp never raises; a value with a trailing
\* "Z" or an explicit offset is returned as the same instant read in UTC and
\* ending in "Z"; a value that does not parse is returned unchanged; and
\* normalizing the returned value once more returns it unchanged.
C21_NormalizesToUtc ==
    Normalized =>
        /\ ret.kind = "value"
        /\ call.raw_value.kind \in {"iso", "isoZ"} =>
               ret.value = IsoZ(call.raw_value.local - call.raw_value.off)
        /\ ~ParsesAsIso(call.raw_value) => ret.value = call.raw_value
        /\ ~_normalize_timestampRaises(ret.value)
        /\ _normalize_timestamp(ret.value) = ret.value

\* the result carries the "may be private, missing token, skipped" warning
HasMayBePrivate(res) ==
    \E k \in 1..Len(res.warnings) :
        /\ Contains(res.warnings[k], <<" repo may be private: ">>)
        /\ Contains(res.warnings[k], <<"; missing token, skipped">>)

\* C22 (as claimed): a returned result that carries the "may be private,
\* missing token, skipped" warning has no commits and no errors, on whichever
\* list page the 401/403 arrived.
C22_DeniedMeansNoCommits ==
    (pc = "returned" /\ HasMayBePrivate(result)) =>
        /\ result.commits = <<>>
        /\ result.errors = <<>>

\* the step ended the iteration over the current summary entry without an
\* exception
EntryDone == pc \in {"item", "diff"} /\ pc' \notin {"raised", "diff"}

\* the sha is that of a summary entry served before the current one
FromEarlierEntry(sha) == \E e \in 1..(Entry - 1) : sha = <<"sha">> \o IntToStr(e)

\* C23: the commits of a result are in the order in which the list endpoint
\* returned their summaries.  Every step either leaves commits alone or
\* appends, at the end, one commit carrying the non-empty sha of the summary
\* entry being processed, every commit already there coming from an earlier
\* entry; and an entry that is gone through yields a commit exactly when it has
\* a sha and its detail request succeeded, so no entry yields two.
C23_HistoryOrder ==
    [][ /\ \/ result'.commits = result.commits
           \/ /\ EntryDone
              /\ AppendedOne(result.commits, result'.commits)
              /\ Last(result'.commits).sha = ShaOf(page, i)
              /\ Last(result'.commits).sha # <<>>
              /\ result.commits # <<>> => FromEarlierEntry(Last(result.commits).sha)
              /\ pc' = "item" => EntryOf(page', i') = Entry + 1
              /\ pc' = "list" => page' = page + 1
        /\ EntryDone =>
              (result'.commits # result.commits
                  <=> (pc = "diff" \/ (DetailStep /\ ~Failed(resp')))) ]_vars

\* C23 witness: a returned GitHub result of a history of 101 commits whose
\* first detail request failed: 100 commits, the first from entry 2 of page 1
\* and the last from entry 1 of page 2.
C23_Witness ==
    /\ pc = "returned"
    /\ parsed.provider = "github"
    /\ Len(pages) = 2
    /\ Len(result.commits) = per_page
    /\ result.commits[1].sha = ShaOf(1, 2)
    /\ result.commits[per_page - 1].sha = ShaOf(1, per_page)
    /\ result.commits[per_page].sha = ShaOf(2, 1)

\* the step is the diff request of a GitLab entry whose detail request was
\* answered with a JSON object
DiffStep == pc = "diff" /\ detail.body = "object" /\ nreq' = nreq + 1 /\ resp'.for = "diff"

\* C24: in a GitLab fetch, when the detail request of an entry has succeeded
\* and its diff request fails (transport failure or status >= 400), the commit
\* is appended with an empty files_changed, no warning and no error is
\* recorded, and the fetch goes on with the next entry (or the next page, or
\* returns after the last entry of a short page).
C24_DiffFailureKeepsCommit ==
    [][ (DiffStep /\ Failed(resp')) =>
            /\ AppendedOne(result.commits, result'.commits)
            /\ Last(result'.commits).sha = ShaOf(page, i)
            /\ Last(result'.commits).timestamp = _normalize_timestamp(detail.data.date)
            /\ Last(result'.commits).files_changed = <<>>
            /\ result'.warnings = result.warnings
            /\ result'.errors = result.errors
            /\ exc' = exc
            /\ i < page_len => pc' = "item" /\ i' = i + 1 /\ page' = page
            /\ (i = page_len /\ page_len = per_page) => pc' = "list" /\ page' = page + 1
            /\ (i = page_len /\ page_len < per_page) => pc' = "returned" ]_vars

\* C24 witness: the diff request of the first entry of a GitLab page of 100
\* was answered 500 after its detail request had succeeded; the commit is
\* there without files, nothing is reported and the second entry is next.
C24_Witness ==
    /\ parsed.provider = "gitlab"
    /\ resp = Response("diff", "http", 500, "object")
    /\ pc = "item"
    /\ i = 2
    /\ page_len = per_page
    /\ Len(result.commits) = 1
    /\ result.commits[1] = Commit(ShaOf(1, 1), IsoZ(540), <<>>)
    /\ result.warnings = <<>>
    /\ result.errors = <<>>

\* C25: analyze_repo partitions the commits.  In every report the three
\* counts are the numbers of commits that classify_commit puts before, in and
\* after the window, they add up to total_commits, which is the number of
\* commits given, and pre_window_pct lies between 0 and 100.
C25_BucketsPartition ==
    (call.fn = "analyze_repo" /\ ret.kind = "value") =>
        LET cs  == call.result.commits
            rep == ret.value
        IN  /\ rep.total_commits = Len(cs)
            /\ rep.pre_window + rep.in_window + rep.post_window = rep.total_commits
            /\ rep.pre_window = Cardinality(PositionsIn(cs, call.window, "pre"))
            /\ rep.in_window = Cardinality(PositionsIn(cs, call.window, "in"))
            /\ rep.post_window = Cardinality(PositionsIn(cs, call.window, "post"))
            /\ \A k \in 1..Len(cs) :
                  classify_commit(cs[k], call.window) \in {"pre", "in", "post"}
            /\ rep.pre_window_pct.den > 0
            /\ 0 <= rep.pre_window_pct.num
            /\ rep.pre_window_pct.num <= 100 * rep.pre_window_pct.den
            /\ rep.pre_window_pct.num * rep.total_commits
                   = 100 * rep.pre_window * rep.pre_window_pct.den

\* C25 witness: a report on four commits, one before the window, two inside
\* it, at its very start for one of them at least, and one after it.
C25_Witness ==
    /\ call.fn = "analyze_repo"
    /\ ret.kind = "value"
    /\ call.window = TestWindow
    /\ Len(call.result.commits) = 4
    /\ \E k \in 1..4 : call.result.commits[k].timestamp = Iso(At(2, 20, 9, 0), EST)
    /\ ret.value.pre_window = 1
    /\ ret.value.in_window = 2
    /\ ret.value.post_window = 1

\* the fetch of the repository has ended by an error or by the "may be
\* private" warning
Stopped(res) == res.errors # <<>> \/ HasMayBePrivate(res)

\* C26: during one repository's ingestion errors never has more than one
\* entry and never stands next to the "may be private" warning; once an error
\* or that warning is there, no step appends to commits, warnings or errors
\* and no step issues a request.
C26_StopsAtFirstError ==
    [][ /\ Len(result'.errors) <= 1
        /\ ~(result'.errors # <<>> /\ HasMayBePrivate(result'))
        /\ Stopped(result) =>
              /\ result' = result
              /\ nreq' = nreq
              /\ pages' = pages
              /\ pc = "returned" ]_vars

\* C26 witness: a GitHub fetch with a token was answered 403 on its second
\* list page and returned with one error next to the 100 commits of page 1,
\* having issued 102 requests.
C26_Witness ==
    /\ pc = "returned"
    /\ parsed.provider = "github"
    /\ resp = Response("list", "http", 403, "object")
    /\ Len(result.errors) = 1
    /\ Len(result.commits) = per_page
    /\ nreq = per_page + 2

\* the number of the first page of a history of n summaries that is short or
\* empty
FirstShortPage(n) == n \div per_page + 1

\* the fetch loop of the repository is running
Fetching == pc \in {"list", "item", "diff"}

\* every list page requested so far was answered with a list
AllPagesListed == \A k \in 1..Len(pages) : pages[k].items >= 0

\* no page beyond the first short or empty one has been requested, and a fetch
\* that returned having got a list for every page stopped at that very page
StopsAtShortPage ==
    idx <= Len(hist) =>
        /\ \A k \in 1..Len(pages) : pages[k].page <= FirstShortPage(hist[idx])
        /\ (pc = "returned" /\ pages # <<>> /\ AllPagesListed) =>
              /\ Len(pages) = FirstShortPage(hist[idx])
              /\ Last(pages).items = PageSize(hist[idx], Len(pages))
              /\ Last(pages).items < per_page

\* C27: pagination terminates.  With every request answered, the fetch of a
\* repository of finite history always ends (ingest_repo returns, or an
\* exception leaves it); it never requests a page beyond the first short or
\* empty one, and when every page was answered with a list it ends exactly
\* there, however many pages that takes.
C27_PaginationTerminates ==
    /\ []StopsAtShortPage
    /\ Fetching ~> (pc \in {"returned", "raised", "done"})

\* C27 witness: a fetch of MaxFullPages full pages and a last page of one
\* summary has returned after requesting every one of them, with all the
\* commits and no error.
C27_Witness ==
    /\ pc = "returned"
    /\ hist[1] = MaxFullPages * per_page + 1
    /\ Len(pages) = MaxFullPages + 1
    /\ AllPagesListed
    /\ Last(pages).items = 1
    /\ Len(result.commits) = hist[1]
    /\ result.errors = <<>>

====
